---- MODULE Spec2Model ----
(***************************************************************************)
(* Model of examples/notebooks/prt.py: the top-level statements of the     *)
(* script as a sequential state machine (Spec), and the trajectory loaders *)
(* and plot_results as functions applied to bounded inputs (SpecLoad).     *)
(*                                                                         *)
(* Coordinates are held in thousandths (0.125 -> 125); times are integers. *)
(* A file is a pair <<workspace, file name>>.                              *)
(***************************************************************************)
EXTENDS Integers, Sequences, FiniteSets, TLC

VARIABLES
    pc,          \* next top-level statement of the script
    err,         \* exception that ended the script, "none" while running
    sim,         \* object bound to the module-level name sim
    headfile,    \* value of the module-level name headfile
    budgetfile,  \* value of the module-level name budgetfile
    pd,          \* value of the module-level name pd
    ncpl,        \* cells per layer of the refined grid
    disv_props,  \* value of the module-level name disv_props
    disv,        \* grid description each model's discretization package received
    welcells,    \* value of the module-level name welcells
    welspd,      \* value of the name welspd, once bound
    oc,          \* output files registered in each model's output control
    prp,         \* release packages of the PRT model, by part
    pg,          \* MODPATH 7 particle groups, by part
    mp7,         \* arguments of the Modpath7 object
    fs,          \* files present in the workspaces
    log,         \* calls made so far that touch files or run a program
    ppc,         \* next statement of plot_results
    prtfile,     \* rows of the PRT track CSV file
    mp7file,     \* rows that flopy returns from the MODPATH 7 output files
    mf6pl,       \* local mf6pl of plot_results
    mf6ep,       \* local mf6ep of plot_results
    mp7pl,       \* local mp7pl of plot_results
    mp7ts,       \* local mp7ts of plot_results
    mp7ep        \* local mp7ep of plot_results

scriptvars == <<pc, err, sim, headfile, budgetfile, pd, ncpl, disv_props, disv, welcells, welspd,
                oc, prp, pg, mp7, fs, log>>
loadvars == <<ppc, prtfile, mp7file, mf6pl, mf6ep, mp7pl, mp7ts, mp7ep>>
vars == <<scriptvars, loadvars>>

(***************************************************************************)
(* Bounds                                                                  *)
(***************************************************************************)
MaxNcpl == 3
MaxMatch == 2
MaxRecs == 2
MaxPart == 0
MaxTime == 1
MaxLay == 0

(***************************************************************************)
(* Names and parameters of the script                                      *)
(***************************************************************************)
GwfHds == "mp7-p02-gwf.hds"
GwfCbb == "mp7-p02-gwf.cbb"
GwfHdsBkwd == "mp7-p02-gwf_bkwd.hds"
GwfCbbBkwd == "mp7-p02-gwf_bkwd.cbb"
PrtBud == "mp7-p02-prt.bud"
PrtTrk == "mp7-p02-prt.trk"
PrtTrkCsv == "mp7-p02-prt.trk.csv"

wel_q == <<-150000>>
WelLayer == 2

pcoord ==
    << <<0, 125, 500>>, <<0, 375, 500>>, <<0, 625, 500>>, <<0, 875, 500>>,
       <<1000, 125, 500>>, <<1000, 375, 500>>, <<1000, 625, 500>>, <<1000, 875, 500>>,
       <<125, 0, 500>>, <<375, 0, 500>>, <<625, 0, 500>>, <<875, 0, 500>>,
       <<125, 1000, 500>>, <<375, 1000, 500>>, <<625, 1000, 500>>, <<875, 1000, 500>> >>

\* the same counts with those of faces 5 and 6 exchanged
FaceDivisions_faces_5_6_exchanged ==
    [drape |-> 0,
     verticaldivisions1 |-> 10, horizontaldivisions1 |-> 10,
     verticaldivisions2 |-> 10, horizontaldivisions2 |-> 10,
     verticaldivisions3 |-> 10, horizontaldivisions3 |-> 10,
     verticaldivisions4 |-> 10, horizontaldivisions4 |-> 10,
     rowdivisions5 |-> 4, columndivisions5 |-> 4,
     rowdivisions6 |-> 0, columndivisions6 |-> 0]

\* subdivisiondata=FaceDataType(...) of get_particle_data("B"): the division
\* counts of faces 1 to 4 (the sides), 5 (the bottom) and 6 (the top)
FaceDivisions ==
    [drape |-> 0,
     verticaldivisions1 |-> 10, horizontaldivisions1 |-> 10,
     verticaldivisions2 |-> 10, horizontaldivisions2 |-> 10,
     verticaldivisions3 |-> 10, horizontaldivisions3 |-> 10,
     verticaldivisions4 |-> 10, horizontaldivisions4 |-> 10,
     rowdivisions5 |-> 0, columndivisions5 |-> 0,
     rowdivisions6 |-> 4, columndivisions6 |-> 4]

(***************************************************************************)
(* get_particle_data                                                       *)
(***************************************************************************)
\* nodew = ncpl + welcells[0], the cell one layer higher
nodew_layer_1(n, w) == n + w[1]

\* nodew = ncpl * 2 + welcells[0]; the caller has checked that welcells[0] exists
nodew(n, w) == n * 2 + w[1]

\* the same, building as many particles as a triple has columns
get_particle_data_cols(part, n, w) ==
    IF part = "A"
    THEN [kind |-> "ParticleData",
          pts |-> [i \in 1..Len(pcoord[1]) |->
                     [node |-> nodew(n, w), localx |-> pcoord[i][1],
                      localy |-> pcoord[i][2], localz |-> pcoord[i][3], drape |-> 0]]]
    ELSE [kind |-> "NodeParticleData", nodes |-> nodew(n, w),
          subdivisiondata |-> FaceDivisions]

get_particle_data(part, n, w) ==
    IF part = "A"
    THEN [kind |-> "ParticleData",
          pts |-> [i \in 1..Len(pcoord) |->
                     [node |-> nodew(n, w), localx |-> pcoord[i][1],
                      localy |-> pcoord[i][2], localz |-> pcoord[i][3], drape |-> 0]]]
    ELSE [kind |-> "NodeParticleData", nodes |-> nodew(n, w),
          subdivisiondata |-> FaceDivisions]

(***************************************************************************)
(* The script, statement by statement                                      *)
(***************************************************************************)
\* files that an earlier execution, or the user, may have left behind
StaleFiles == {<<"gwf", GwfHds>>, <<"gwf", GwfCbb>>, <<"gwf", PrtBud>>}

\* results of GridIntersect.intersects for the well point: the cells that
\* touch it, none when it lies outside the grid, several when it lies on a
\* shared edge
RECURSIVE DistinctSeqs(_, _)
DistinctSeqs(S, k) ==
    IF k = 0 THEN {<<>>}
    ELSE LET shorter == DistinctSeqs(S, k - 1)
         IN shorter \cup {Append(s, c) : s \in {t \in shorter : Len(t) = k - 1},
                                         c \in S}

Range(s) == {s[i] : i \in 1..Len(s)}

Matches(n) ==
    {s \in DistinctSeqs(0..(n - 1), MaxMatch) : Cardinality(Range(s)) = Len(s)}

\* a name that has not been bound yet
Unset == [kind |-> "unset"]

LoadIdle ==
    /\ ppc = "idle"
    /\ prtfile = <<>>
    /\ mp7file = <<>>
    /\ mf6pl = <<>>
    /\ mf6ep = <<>>
    /\ mp7pl = <<>>
    /\ mp7ts = <<>>
    /\ mp7ep = <<>>

\* lines 30-132: imports, names and parameters
Init ==
    /\ pc = "build_grid"
    /\ err = "none"
    /\ sim = "unbound"
    /\ headfile = GwfHds
    /\ budgetfile = GwfCbb
    /\ pd = "pandas"
    /\ ncpl = 0
    /\ disv_props = Unset
    /\ disv = [m \in {"gwf", "prt"} |-> Unset]
    /\ welcells = <<>>
    /\ welspd = [bound |-> FALSE, val |-> <<>>]
    /\ oc = [m \in {"gwf", "prt"} |-> {}]
    /\ prp = [p \in {"A", "B"} |-> Unset]
    /\ pg = [p \in {"A", "B"} |-> Unset]
    /\ mp7 = Unset
    /\ fs \in SUBSET StaleFiles
    /\ log = <<>>
    /\ LoadIdle

At(l) == pc = l /\ err = "none"

Raise(e) == err' = e /\ pc' = pc

\* disv_props = g.get_gridprops_disv(): a grid of n cells per layer, its cells
\* listed in the order of their ids
get_gridprops_disv(n) == [ncpl |-> n, cell2d |-> [i \in 1..n |-> i - 1]]

\* g.build(); disv_props = g.get_gridprops_disv(); ncpl = disv_props["ncpl"]
BuildGrid ==
    /\ At("build_grid")
    /\ \E n \in 1..MaxNcpl :
          /\ disv_props' = get_gridprops_disv(n)
          /\ ncpl' = disv_props'.ncpl
    /\ pc' = "gwf_sim"
    /\ UNCHANGED <<err, disv, sim, headfile, budgetfile, pd, welcells, welspd, oc, prp,
                   pg, mp7, fs, log, loadvars>>

\* sim = MFSimulation(sim_name=gwf_name, ...) and the GWF model's first packages
NewGwfSim ==
    /\ At("gwf_sim")
    /\ disv' = [disv EXCEPT !["gwf"] = disv_props]
    /\ sim' = "gwf"
    /\ pc' = "wel_locate"
    /\ UNCHANGED <<err, headfile, budgetfile, pd, ncpl, disv_props, welcells, welspd, oc, prp,
                   pg, mp7, fs, log, loadvars>>

\* welcells = ix.intersects(MultiPoint(wel_coords)); welcells = [icpl for ...]
LocateWell ==
    /\ At("wel_locate")
    /\ \E w \in Matches(ncpl) : welcells' = w
    /\ pc' = "wel_spd"
    /\ UNCHANGED <<err, sim, headfile, budgetfile, pd, ncpl, disv_props, disv, welspd, oc, prp,
                   pg, mp7, fs, log, loadvars>>

\* welspd = [[(2, icpl), wel_q[idx]] for idx, icpl in enumerate(welcells)]
\* with every cell given the first pumping rate instead of wel_q[idx]
welspd_first_q(w) ==
    [ok |-> TRUE,
     val |-> [i \in 1..Len(w) |-> [cellid |-> <<WelLayer, w[i]>>, q |-> wel_q[1]]]]

\* welspd = [[(2, icpl), wel_q[idx]] for idx, icpl in enumerate(welcells)]:
\* the list, or the IndexError of wel_q[idx] when there are more cells than rates
welspd_of(w) ==
    IF Len(w) > Len(wel_q)
    THEN [ok |-> FALSE, val |-> <<>>]
    ELSE [ok |-> TRUE,
          val |-> [i \in 1..Len(w) |-> [cellid |-> <<WelLayer, w[i]>>, q |-> wel_q[i]]]]

\* welspd = [...]; ModflowGwfwel(gwf, stress_period_data=welspd)
BuildWelspd ==
    /\ At("wel_spd")
    /\ LET r == welspd_of(welcells)
       IN IF r.ok
          THEN /\ welspd' = [bound |-> TRUE, val |-> r.val]
               /\ pc' = "gwf_oc"
               /\ err' = err
          ELSE /\ Raise("IndexError")
               /\ welspd' = welspd
    /\ UNCHANGED <<sim, headfile, budgetfile, pd, ncpl, disv_props, disv, welcells, oc, prp,
                   pg, mp7, fs, log, loadvars>>

\* headfile = ...; budgetfile = ...; ModflowGwfoc(gwf, ...)
GwfOc ==
    /\ At("gwf_oc")
    /\ headfile' = GwfHds
    /\ budgetfile' = GwfCbb
    /\ oc' = [oc EXCEPT !["gwf"] = {<<"gwf", GwfHds>>, <<"gwf", GwfCbb>>}]
    /\ pc' = "prt_sim"
    /\ UNCHANGED <<err, sim, pd, ncpl, disv_props, disv, welcells, welspd, prp, pg, mp7, fs, log,
                   loadvars>>

\* sim = MFSimulation(sim_name=prt_name, ...) with the PRT discretization
\* built from a grid description of one more cell per layer
NewPrtSim_other_grid ==
    /\ At("prt_sim")
    /\ disv' = [disv EXCEPT !["prt"] = get_gridprops_disv(disv_props.ncpl + 1)]
    /\ sim' = "prt"
    /\ pc' = "add_prp_A"
    /\ UNCHANGED <<err, headfile, budgetfile, pd, ncpl, disv_props, welcells, welspd, oc, prp,
                   pg, mp7, fs, log, loadvars>>

\* sim = MFSimulation(sim_name=prt_name, ...) and the PRT model's first packages
NewPrtSim ==
    /\ At("prt_sim")
    /\ disv' = [disv EXCEPT !["prt"] = disv_props]
    /\ sim' = "prt"
    /\ pc' = "add_prp_A"
    /\ UNCHANGED <<err, headfile, budgetfile, pd, ncpl, disv_props, welcells, welspd, oc, prp,
                   pg, mp7, fs, log, loadvars>>

\* add_prp(part): releasepts = list(get_particle_data(part).to_prp(grid));
\* its pd is a local name
AddPrp(part, next) ==
    /\ At(IF part = "A" THEN "add_prp_A" ELSE "add_prp_B")
    /\ IF welcells = <<>>
       THEN /\ Raise("IndexError")
            /\ prp' = prp
       ELSE /\ prp' = [prp EXCEPT ![part] = get_particle_data(part, ncpl, welcells)]
            /\ pc' = next
            /\ err' = err
    /\ UNCHANGED <<sim, headfile, budgetfile, pd, ncpl, disv_props, disv, welcells, welspd, oc,
                   pg, mp7, fs, log, loadvars>>

AddPrpA == AddPrp("A", "add_prp_B")

AddPrpB == AddPrp("B", "prt_oc")

\* budgetfile = "{}.bud".format(prt_name); ...; ModflowPrtoc(prt, ...)
PrtOc ==
    /\ At("prt_oc")
    /\ budgetfile' = PrtBud
    /\ oc' = [oc EXCEPT !["prt"] = {<<"prt", PrtBud>>, <<"prt", PrtTrk>>,
                                    <<"prt", PrtTrkCsv>>}]
    /\ pc' = "prt_fmi"
    /\ UNCHANGED <<err, sim, headfile, pd, ncpl, disv_props, disv, welcells, welspd, prp, pg, mp7,
                   fs, log, loadvars>>

\* pd = [("GWFHEAD", ...), ("GWFBUDGET", ...)]; ModflowPrtfmi(prt, packagedata=pd)
PrtFmi ==
    /\ At("prt_fmi")
    /\ pd' = "fmi_packagedata"
    /\ pc' = "reverse_budget"
    /\ UNCHANGED <<err, sim, headfile, budgetfile, ncpl, disv_props, disv, welcells, welspd, oc, prp,
                   pg, mp7, fs, log, loadvars>>

\* reverse_budgetfile(gwf_ws / budgetfile, gwf_ws / budgetfile_bkwd, sim.tdis)
ReverseBudget ==
    /\ At("reverse_budget")
    /\ log' = Append(log, <<"reverse_budgetfile", <<"gwf", budgetfile>>>>)
    /\ IF <<"gwf", budgetfile>> \in fs
       THEN /\ fs' = fs \cup {<<"gwf", GwfCbbBkwd>>}
            /\ pc' = "reverse_head"
            /\ err' = err
       ELSE /\ Raise("FileNotFoundError")
            /\ fs' = fs
    /\ UNCHANGED <<sim, headfile, budgetfile, pd, ncpl, disv_props, disv, welcells, welspd, oc, prp,
                   pg, mp7, loadvars>>

\* reverse_headfile(gwf_ws / headfile, gwf_ws / headfile_bkwd, sim.tdis)
ReverseHead ==
    /\ At("reverse_head")
    /\ log' = Append(log, <<"reverse_headfile", <<"gwf", headfile>>>>)
    /\ IF <<"gwf", headfile>> \in fs
       THEN /\ fs' = fs \cup {<<"gwf", GwfHdsBkwd>>}
            /\ pc' = "write_simulation"
            /\ err' = err
       ELSE /\ Raise("FileNotFoundError")
            /\ fs' = fs
    /\ UNCHANGED <<sim, headfile, budgetfile, pd, ncpl, disv_props, disv, welcells, welspd, oc, prp,
                   pg, mp7, loadvars>>

\* sim.write_simulation(silent=False)
WriteSimulation ==
    /\ At("write_simulation")
    /\ log' = Append(log, <<"write_simulation", sim>>)
    /\ pc' = "run_simulation"
    /\ UNCHANGED <<err, sim, headfile, budgetfile, pd, ncpl, disv_props, disv, welcells, welspd, oc,
                   prp, pg, mp7, fs, loadvars>>

\* sim.run_simulation(silent=False): returns whether the run succeeded, and
\* a successful run leaves the files of the model's output control
RunSimulation ==
    /\ At("run_simulation")
    /\ log' = Append(log, <<"run_simulation", sim>>)
    /\ \E success \in BOOLEAN :
          fs' = IF success THEN fs \cup oc[sim] ELSE fs
    /\ pc' = "pga"
    /\ UNCHANGED <<err, sim, headfile, budgetfile, pd, ncpl, disv_props, disv, welcells, welspd, oc,
                   prp, pg, mp7, loadvars>>

\* pga = ParticleGroup(particledata=get_particle_data("A"), ...), and pgb
MakeGroup(part, next) ==
    /\ At(IF part = "A" THEN "pga" ELSE "pgb")
    /\ IF welcells = <<>>
       THEN /\ Raise("IndexError")
            /\ pg' = pg
       ELSE /\ pg' = [pg EXCEPT ![part] = get_particle_data(part, ncpl, welcells)]
            /\ pc' = next
            /\ err' = err
    /\ UNCHANGED <<sim, headfile, budgetfile, pd, ncpl, disv_props, disv, welcells, welspd, oc, prp,
                   mp7, fs, log, loadvars>>

MakePga == MakeGroup("A", "pgb")

MakePgb == MakeGroup("B", "mp7")

\* mp7 = Modpath7(flowmodel=gwf, budgetfilename=budgetfile, headfilename=headfile)
NewMp7 ==
    /\ At("mp7")
    /\ mp7' = [kind |-> "Modpath7", flowmodel |-> "gwf", budgetfilename |-> budgetfile,
               headfilename |-> headfile, particlegroups |-> <<pg["A"], pg["B"]>>]
    /\ pc' = "write_input"
    /\ UNCHANGED <<err, sim, headfile, budgetfile, pd, ncpl, disv_props, disv, welcells, welspd, oc,
                   prp, pg, fs, log, loadvars>>

\* sim.write_input(): sim is an MFSimulation, which has no such attribute
WriteInput ==
    /\ At("write_input")
    /\ IF sim = "mp7"
       THEN /\ log' = Append(log, <<"write_input", sim>>)
            /\ pc' = "run_model"
            /\ err' = err
       ELSE /\ Raise("AttributeError")
            /\ log' = log
    /\ UNCHANGED <<sim, headfile, budgetfile, pd, ncpl, disv_props, disv, welcells, welspd, oc, prp,
                   pg, mp7, fs, loadvars>>

(***************************************************************************)
(* Trajectory loaders                                                      *)
(***************************************************************************)
\* add_prp is called for "A" and for "B": the PRT model has two release packages
NumPrp == 2

\* mf6pl.ireason == 3, the termination event
TerminationEvent == 3

\* the other reason the plots single out: pathlines.ireason != 1
CellExitEvent == 1

SetMin(S) == CHOOSE x \in S : \A y \in S : x <= y

SetMax(S) == CHOOSE x \in S : \A y \in S : x >= y

\* "green" if layer == 1 else "yellow" if layer == 2 else "red"
markercolor(layer) ==
    IF layer = 1 THEN "green" ELSE IF layer = 2 THEN "yellow" ELSE "red"

\* get_mf6_pathlines with the tt block still taking x.t.min()
get_mf6_pathlines_tt_min(file) ==
    LET idx(i) == <<file[i].iprp, file[i].irpt>>
        grp(i) == {j \in 1..Len(file) : idx(j) = idx(i)}
    IN [i \in 1..Len(file) |->
          [idx |-> idx(i), iprp |-> file[i].iprp, irpt |-> file[i].irpt,
           ilay |-> file[i].ilay, t |-> file[i].t, ireason |-> file[i].ireason,
           subprob |-> IF file[i].iprp = 1 THEN "A" ELSE "B",
           t0 |-> SetMin({file[j].t : j \in grp(i)}),
           tt |-> SetMin({file[j].t : j \in grp(i)}),
           mc |-> markercolor(file[i].ilay)]]

\* get_mf6_pathlines: the rows of the CSV file, indexed by (iprp, irpt), with
\* subprob, t0 and tt (the group's minimum and maximum t, aligned on the
\* index) and mc added
get_mf6_pathlines(file) ==
    LET idx(i) == <<file[i].iprp, file[i].irpt>>
        grp(i) == {j \in 1..Len(file) : idx(j) = idx(i)}
    IN [i \in 1..Len(file) |->
          [idx |-> idx(i), iprp |-> file[i].iprp, irpt |-> file[i].irpt,
           ilay |-> file[i].ilay, t |-> file[i].t, ireason |-> file[i].ireason,
           subprob |-> IF file[i].iprp = 1 THEN "A" ELSE "B",
           t0 |-> SetMin({file[j].t : j \in grp(i)}),
           tt |-> SetMax({file[j].t : j \in grp(i)}),
           mc |-> markercolor(file[i].ilay)]]

\* the same body with mc computed from k as read, before 1 is added to it
mp7_frame_mc_before_increment(file, bySequence) ==
    LET idx(i) == <<file[i].particlegroup,
                    IF bySequence THEN file[i].sequencenumber
                    ELSE file[i].particleid>>
        grp(i) == {j \in 1..Len(file) : idx(j) = idx(i)}
        group(i) == file[i].particlegroup + 1
    IN [i \in 1..Len(file) |->
          [idx |-> idx(i),
           k |-> file[i].k + 1,
           node |-> file[i].node + 1,
           particleid |-> file[i].particleid + 1,
           particlegroup |-> group(i),
           particleidloc |-> file[i].particleidloc + 1,
           sequencenumber |-> IF bySequence THEN file[i].sequencenumber + 1
                              ELSE file[i].sequencenumber,
           time |-> file[i].time,
           subprob |-> IF group(i) = 1 THEN "A"
                       ELSE IF group(i) = 2 THEN "B" ELSE "NA",
           t0 |-> SetMin({file[j].time : j \in grp(i)}),
           tt |-> SetMax({file[j].time : j \in grp(i)}),
           mc |-> markercolor(file[i].k)]]

\* the body shared by the three MODPATH 7 loaders, in the order of the code:
\* set_index copies the key columns as they are, then the columns named in
\* kijnames are incremented, then subprob, t0, tt (grouped by the index
\* levels) and mc are computed from the columns
mp7_frame(file, bySequence) ==
    LET idx(i) == <<file[i].particlegroup,
                    IF bySequence THEN file[i].sequencenumber
                    ELSE file[i].particleid>>
        grp(i) == {j \in 1..Len(file) : idx(j) = idx(i)}
        group(i) == file[i].particlegroup + 1
    IN [i \in 1..Len(file) |->
          [idx |-> idx(i),
           k |-> file[i].k + 1,
           node |-> file[i].node + 1,
           particleid |-> file[i].particleid + 1,
           particlegroup |-> group(i),
           particleidloc |-> file[i].particleidloc + 1,
           sequencenumber |-> IF bySequence THEN file[i].sequencenumber + 1
                              ELSE file[i].sequencenumber,
           time |-> file[i].time,
           subprob |-> IF group(i) = 1 THEN "A"
                       ELSE IF group(i) = 2 THEN "B" ELSE "NA",
           t0 |-> SetMin({file[j].time : j \in grp(i)}),
           tt |-> SetMax({file[j].time : j \in grp(i)}),
           mc |-> markercolor(file[i].k + 1)]]

get_mp7_pathlines(file) == mp7_frame(file, TRUE)

get_mp7_timeseries(file) == mp7_frame(file, FALSE)

get_mp7_endpoints(file) == mp7_frame(file, FALSE)

\* df[df.ireason != code], the filter of plot_tracks, in place of ==
rows_without_reason(df, code) == SelectSeq(df, LAMBDA r : r.ireason # code)

\* df[df.ireason == code]
rows_with_reason(df, code) == SelectSeq(df, LAMBDA r : r.ireason = code)

\* df[df.subprob == name]
rows_of_subprob(df, name) == SelectSeq(df, LAMBDA r : r.subprob = name)

(***************************************************************************)
(* plot_results, statement by statement                                    *)
(***************************************************************************)
PrtRows ==
    [iprp : 1..NumPrp, irpt : 1..(MaxPart + 1), ilay : 1..(MaxLay + 1),
     t : 0..MaxTime, ireason : {CellExitEvent, TerminationEvent}]

\* rows of a one-cell-per-layer grid (node = k), with the particles numbered
\* in sequence through the groups and particleidloc = particleid
Mp7Rows ==
    {[particlegroup |-> g, particleid |-> p,
      sequencenumber |-> g * (MaxPart + 1) + p,
      particleidloc |-> p, k |-> l, node |-> l, time |-> t] :
        g \in 0..(NumPrp - 1), p \in 0..MaxPart, l \in 0..MaxLay, t \in 0..MaxTime}

RECURSIVE SeqsOfLen(_, _)
SeqsOfLen(S, k) ==
    IF k = 0 THEN {<<>>}
    ELSE {Append(s, x) : s \in SeqsOfLen(S, k - 1), x \in S}

\* plot_results is entered with the two engines' output files holding any
\* rows, MaxRecs at most in all, and pd bound to pandas or to what the script
\* last assigned to it
InitLoad ==
    /\ pc = "plot_results"
    /\ err = "none"
    /\ sim = "prt"
    /\ headfile = GwfHds
    /\ budgetfile = PrtBud
    /\ pd \in {"pandas", "fmi_packagedata"}
    /\ ncpl = 1
    /\ disv_props = get_gridprops_disv(1)
    /\ disv = [m \in {"gwf", "prt"} |-> get_gridprops_disv(1)]
    /\ welcells = <<0>>
    /\ welspd = [bound |-> TRUE, val |-> welspd_of(<<0>>).val]
    /\ oc = [m \in {"gwf", "prt"} |-> {}]
    /\ prp = [p \in {"A", "B"} |-> Unset]
    /\ pg = [p \in {"A", "B"} |-> Unset]
    /\ mp7 = Unset
    /\ fs = {}
    /\ log = <<>>
    /\ ppc = "mf6pl"
    /\ \E n \in 0..MaxRecs, m \in 0..MaxRecs :
          /\ n + m <= MaxRecs
          /\ prtfile \in SeqsOfLen(PrtRows, n)
          /\ mp7file \in SeqsOfLen(Mp7Rows, m)
    /\ mf6pl = <<>>
    /\ mf6ep = <<>>
    /\ mp7pl = <<>>
    /\ mp7ts = <<>>
    /\ mp7ep = <<>>

\* number of layers of the grid
nlay == 3

ColorPrtRows ==
    [iprp : 1..NumPrp, irpt : 1..(MaxPart + 1), ilay : 1..nlay,
     t : 0..MaxTime, ireason : {CellExitEvent, TerminationEvent}]

ColorMp7Rows ==
    {[particlegroup |-> g, particleid |-> p,
      sequencenumber |-> g * (MaxPart + 1) + p,
      particleidloc |-> p, k |-> l, node |-> l, time |-> t] :
        g \in 0..(NumPrp - 1), p \in 0..MaxPart, l \in 0..(nlay - 1), t \in 0..MaxTime}

\* plot_results is entered with one row in each engine's file, in any of the
\* grid's layers
InitColor ==
    /\ pc = "plot_results"
    /\ err = "none"
    /\ sim = "prt"
    /\ headfile = GwfHds
    /\ budgetfile = PrtBud
    /\ pd = "pandas"
    /\ ncpl = 1
    /\ disv_props = get_gridprops_disv(1)
    /\ disv = [m \in {"gwf", "prt"} |-> get_gridprops_disv(1)]
    /\ welcells = <<0>>
    /\ welspd = [bound |-> TRUE, val |-> welspd_of(<<0>>).val]
    /\ oc = [m \in {"gwf", "prt"} |-> {}]
    /\ prp = [p \in {"A", "B"} |-> Unset]
    /\ pg = [p \in {"A", "B"} |-> Unset]
    /\ mp7 = Unset
    /\ fs = {}
    /\ log = <<>>
    /\ ppc = "mf6pl"
    /\ prtfile \in SeqsOfLen(ColorPrtRows, 1)
    /\ mp7file \in SeqsOfLen(ColorMp7Rows, 1)
    /\ mf6pl = <<>>
    /\ mf6ep = <<>>
    /\ mp7pl = <<>>
    /\ mp7ts = <<>>
    /\ mp7ep = <<>>

InPlot(l) == ppc = l /\ err = "none"

\* mf6pl = get_mf6_pathlines(prt_ws / trackcsvfile_prt); its first statement
\* is pd.read_csv(path)
LoadMf6 ==
    /\ InPlot("mf6pl")
    /\ IF pd = "pandas"
       THEN /\ mf6pl' = get_mf6_pathlines(prtfile)
            /\ ppc' = "mf6ep"
            /\ err' = err
       ELSE /\ err' = "AttributeError"
            /\ UNCHANGED <<mf6pl, ppc>>
    /\ UNCHANGED <<pc, sim, headfile, budgetfile, pd, ncpl, disv_props, disv, welcells, welspd, oc,
                   prp, pg, mp7, fs, log, prtfile, mp7file, mf6ep, mp7pl, mp7ts,
                   mp7ep>>

\* mf6ep = mf6pl[mf6pl.ireason == 3]
FilterMf6Ep ==
    /\ InPlot("mf6ep")
    /\ mf6ep' = rows_with_reason(mf6pl, TerminationEvent)
    /\ ppc' = "mp7pl"
    /\ UNCHANGED <<scriptvars, prtfile, mp7file, mf6pl, mp7pl, mp7ts, mp7ep>>

\* mp7pl = get_mp7_pathlines(mp7_ws / f"{mp7_name}.mppth", gwf_model), and
\* storing in every row the tt of the PRT rows of the same particle, if any
LoadMp7Pl_shared_tt ==
    /\ InPlot("mp7pl")
    /\ LET own == get_mp7_pathlines(mp7file)
           same(i) == {j \in 1..Len(mf6pl) :
                          /\ mf6pl[j].iprp = own[i].particlegroup
                          /\ mf6pl[j].irpt = own[i].sequencenumber}
       IN mp7pl' = [i \in 1..Len(own) |->
                      IF same(i) = {} THEN own[i]
                      ELSE [own[i] EXCEPT !.tt = mf6pl[CHOOSE j \in same(i) : TRUE].tt]]
    /\ ppc' = "mp7ts"
    /\ UNCHANGED <<scriptvars, prtfile, mp7file, mf6pl, mf6ep, mp7ts, mp7ep>>

\* mp7pl = get_mp7_pathlines(mp7_ws / f"{mp7_name}.mppth", gwf_model)
LoadMp7Pl ==
    /\ InPlot("mp7pl")
    /\ mp7pl' = get_mp7_pathlines(mp7file)
    /\ ppc' = "mp7ts"
    /\ UNCHANGED <<scriptvars, prtfile, mp7file, mf6pl, mf6ep, mp7ts, mp7ep>>

\* mp7ts = get_mp7_timeseries(mp7_ws / f"{mp7_name}.timeseries", gwf_model)
LoadMp7Ts ==
    /\ InPlot("mp7ts")
    /\ mp7ts' = get_mp7_timeseries(mp7file)
    /\ ppc' = "mp7ep"
    /\ UNCHANGED <<scriptvars, prtfile, mp7file, mf6pl, mf6ep, mp7pl, mp7ep>>

\* mp7ep = get_mp7_endpoints(mp7_ws / f"{mp7_name}.mpend", gwf_model)
LoadMp7Ep ==
    /\ InPlot("mp7ep")
    /\ mp7ep' = get_mp7_endpoints(mp7file)
    /\ ppc' = "plot_pathlines"
    /\ UNCHANGED <<scriptvars, prtfile, mp7file, mf6pl, mf6ep, mp7pl, mp7ts>>

\* plot_pathlines_and_points(...): ends in NameError at "if plot_show:", a
\* name the script never binds
PlotPathlines ==
    /\ InPlot("plot_pathlines")
    /\ err' = "NameError"
    /\ UNCHANGED <<pc, sim, headfile, budgetfile, pd, ncpl, disv_props, disv, welcells, welspd, oc,
                   prp, pg, mp7, fs, log, loadvars>>

NextLoad ==
    \/ LoadMf6
    \/ FilterMf6Ep
    \/ LoadMp7Pl
    \/ LoadMp7Ts
    \/ LoadMp7Ep
    \/ PlotPathlines

SpecLoad == InitLoad /\ [][NextLoad]_vars

SpecColor == InitColor /\ [][NextLoad]_vars

Next ==
    \/ BuildGrid
    \/ NewGwfSim
    \/ LocateWell
    \/ BuildWelspd
    \/ GwfOc
    \/ NewPrtSim
    \/ AddPrpA
    \/ AddPrpB
    \/ PrtOc
    \/ PrtFmi
    \/ ReverseBudget
    \/ ReverseHead
    \/ WriteSimulation
    \/ RunSimulation
    \/ MakePga
    \/ MakePgb
    \/ NewMp7
    \/ WriteInput

Spec == Init /\ [][Next]_vars

(***************************************************************************)
(* Properties                                                              *)
(***************************************************************************)
Called(name) == {i \in 1..Len(log) : log[i][1] = name}

Ran(model) == {i \in 1..Len(log) : log[i] = <<"run_simulation", model>>}

\* C1: the GWF simulation is run before reverse_budgetfile and
\* reverse_headfile are called, and the PRT simulation is run only after both
\* reversed files have been written.
C1_GwfRunThenReverseThenPrt ==
    /\ \A i \in Called("reverse_budgetfile") \cup Called("reverse_headfile") :
          \E j \in Ran("gwf") : j < i
    /\ Ran("prt") # {} =>
          {<<"gwf", GwfCbbBkwd>>, <<"gwf", GwfHdsBkwd>>} \subseteq fs

ParticleHolders == {prp["A"], pg["A"]}

\* C4: get_particle_data("A") yields one release point per triple of pcoord,
\* 16 in all, in the order of the triples, each with its triple's local x, y
\* and z and each on the node of the well cell.
C4_ExplicitList ==
    \A d \in ParticleHolders :
        d.kind = "ParticleData" =>
            /\ Len(d.pts) = 16
            /\ Len(d.pts) = Len(pcoord)
            /\ \A i \in 1..Len(d.pts) :
                  /\ <<d.pts[i].localx, d.pts[i].localy, d.pts[i].localz>> = pcoord[i]
                  /\ d.pts[i].node = 2 * ncpl + welcells[1]

C4_Witness ==
    /\ prp["A"].kind = "ParticleData"
    /\ pg["A"].kind = "ParticleData"
    /\ welcells[1] > 0

\* C6: every row a MODPATH 7 loader returns has layer, node, particle id and
\* particle group one above the 0-based value read, and the key the rows are
\* indexed and grouped by is that same 1-based (group, particle) pair.
C6_OneBasedKey ==
    /\ \A i \in 1..Len(mp7pl) :
          /\ mp7pl[i].k = mp7file[i].k + 1
          /\ mp7pl[i].node = mp7file[i].node + 1
          /\ mp7pl[i].particleid = mp7file[i].particleid + 1
          /\ mp7pl[i].particlegroup = mp7file[i].particlegroup + 1
          /\ mp7pl[i].idx = <<mp7pl[i].particlegroup, mp7pl[i].sequencenumber>>
    /\ \A df \in {mp7ts, mp7ep} : \A i \in 1..Len(df) :
          /\ df[i].k = mp7file[i].k + 1
          /\ df[i].node = mp7file[i].node + 1
          /\ df[i].particleid = mp7file[i].particleid + 1
          /\ df[i].particlegroup = mp7file[i].particlegroup + 1
          /\ df[i].idx = <<df[i].particlegroup, df[i].particleid>>

\* C7: in the frame of a pathline loader every row's t0 is the least and its
\* tt the greatest time among the rows of the same (group, particle) key, so
\* that t0 <= time <= tt and the rows of one particle agree on t0 and on tt.
C7_ReleaseAndTerminationTime ==
    /\ \A i \in 1..Len(mf6pl) :
          LET same == {j \in 1..Len(prtfile) :
                          /\ prtfile[j].iprp = mf6pl[i].iprp
                          /\ prtfile[j].irpt = mf6pl[i].irpt}
          IN /\ \A j \in same : mf6pl[i].t0 <= prtfile[j].t /\ prtfile[j].t <= mf6pl[i].tt
             /\ \E j \in same : prtfile[j].t = mf6pl[i].t0
             /\ \E j \in same : prtfile[j].t = mf6pl[i].tt
             /\ mf6pl[i].t0 <= mf6pl[i].t /\ mf6pl[i].t <= mf6pl[i].tt
             /\ \A j \in same : mf6pl[j].t0 = mf6pl[i].t0 /\ mf6pl[j].tt = mf6pl[i].tt
    /\ \A i \in 1..Len(mp7pl) :
          LET same == {j \in 1..Len(mp7file) :
                          /\ mp7file[j].particlegroup + 1 = mp7pl[i].particlegroup
                          /\ mp7file[j].sequencenumber + 1 = mp7pl[i].sequencenumber}
          IN /\ \A j \in same :
                   mp7pl[i].t0 <= mp7file[j].time /\ mp7file[j].time <= mp7pl[i].tt
             /\ \E j \in same : mp7file[j].time = mp7pl[i].t0
             /\ \E j \in same : mp7file[j].time = mp7pl[i].tt
             /\ mp7pl[i].t0 <= mp7pl[i].time /\ mp7pl[i].time <= mp7pl[i].tt
             /\ \A j \in same : mp7pl[j].t0 = mp7pl[i].t0 /\ mp7pl[j].tt = mp7pl[i].tt

C7_Witness ==
    /\ \E i, j \in 1..Len(mf6pl) :
          /\ i # j
          /\ mf6pl[i].idx = mf6pl[j].idx
          /\ mf6pl[i].t < mf6pl[j].t
          /\ mf6pl[i].t0 = mf6pl[i].t
          /\ mf6pl[i].tt = mf6pl[j].t

\* the greatest time an engine's file holds for a 1-based (group, particle) key
PrtTimes(g, p) ==
    {prtfile[j].t : j \in {j \in 1..Len(prtfile) :
                              prtfile[j].iprp = g /\ prtfile[j].irpt = p}}

Mp7Times(g, p) ==
    {mp7file[j].time : j \in {j \in 1..Len(mp7file) :
                                 /\ mp7file[j].particlegroup + 1 = g
                                 /\ mp7file[j].sequencenumber + 1 = p}}

\* C8: once both pathline frames are loaded, each engine's rows are all there
\* in that engine's own frame, and for a key both engines have rows for, the
\* PRT rows carry the PRT termination time and the MODPATH 7 rows the
\* MODPATH 7 termination time: neither is replaced by the other's.
C8_BothEnginesRetained ==
    ppc \in {"mp7ts", "mp7ep", "plot_pathlines"} =>
        /\ Len(mf6pl) = Len(prtfile)
        /\ Len(mp7pl) = Len(mp7file)
        /\ \A i \in 1..Len(mf6pl) : \A j \in 1..Len(mp7pl) :
              (/\ mf6pl[i].iprp = mp7pl[j].particlegroup
               /\ mf6pl[i].irpt = mp7pl[j].sequencenumber)
              => /\ mf6pl[i].t = prtfile[i].t
                 /\ mp7pl[j].time = mp7file[j].time
                 /\ mf6pl[i].tt = SetMax(PrtTimes(mf6pl[i].iprp, mf6pl[i].irpt))
                 /\ mp7pl[j].tt =
                       SetMax(Mp7Times(mp7pl[j].particlegroup, mp7pl[j].sequencenumber))

C8_Witness ==
    /\ ppc = "mp7ts"
    /\ \E i \in 1..Len(mf6pl) : \E j \in 1..Len(mp7pl) :
          /\ mf6pl[i].iprp = mp7pl[j].particlegroup
          /\ mf6pl[i].irpt = mp7pl[j].sequencenumber
          /\ mf6pl[i].tt # mp7pl[j].tt

Count(S) == Cardinality(S)

Located == pc \notin {"build_grid", "gwf_sim", "wel_locate"}

\* C10 as claimed: when the well point matches no cell or several cells, the
\* location step fails with a LocateError.
C10_LocateError ==
    (pc = "wel_spd" /\ Len(welcells) # 1) => err = "LocateError"

\* C10 as amended: when the well point matches no cell or several cells, the
\* location step itself succeeds and the script ends later in an IndexError,
\* at welspd for several cells and at the first get_particle_data for none;
\* no well record and no release data is ever derived from those matches.
C10_IndexErrorNoChoice ==
    /\ [](Located /\ Len(welcells) # 1 =>
             /\ welspd.val = <<>>
             /\ \A part \in {"A", "B"} : prp[part] = Unset /\ pg[part] = Unset
             /\ err \in {"none", "IndexError"}
             /\ Len(welcells) > 1 => pc = "wel_spd"
             /\ Len(welcells) = 0 => pc \in {"wel_spd", "gwf_oc", "prt_sim", "add_prp_A"})
    /\ [][(pc = "wel_spd" /\ Len(welcells) > 1) => err' = "IndexError"]_vars
    /\ [][(pc = "add_prp_A" /\ Len(welcells) = 0) => err' = "IndexError"]_vars

C10_Witness ==
    /\ pc = "wel_spd"
    /\ Len(welcells) = 2
    /\ err = "IndexError"
    /\ ~welspd.bound

\* C11: the discretization packages of the GWF model and of the PRT model
\* receive the same grid description, the one disv_props holds and ncpl was
\* read from, so a cell id names the same cell in both models and in the
\* release data.
C11_SameGrid ==
    /\ \A m \in {"gwf", "prt"} :
          disv[m] # Unset => disv[m] = disv_props /\ disv[m].ncpl = ncpl
    /\ (disv["gwf"] # Unset /\ disv["prt"] # Unset) => disv["gwf"] = disv["prt"]
    /\ \A part \in {"A", "B"} : \A d \in {prp[part], pg[part]} :
          /\ d.kind = "NodeParticleData" =>
                d.nodes = WelLayer * disv["prt"].ncpl + welcells[1]
          /\ d.kind = "ParticleData" =>
                \A i \in 1..Len(d.pts) :
                    d.pts[i].node = WelLayer * disv["gwf"].ncpl + welcells[1]

C11_Witness ==
    /\ disv["gwf"] # Unset
    /\ disv["prt"] # Unset
    /\ Len(disv["prt"].cell2d) > 1
    /\ prp["B"].kind = "NodeParticleData"

Logged(e) == {i \in 1..Len(log) : log[i] = e}

\* C12: once the PRT simulation has been run, the script does not end before
\* the PRT simulation holding both release packages has been run exactly once
\* and the MODPATH 7 model holding both particle groups has been written
\* once and run once.
C12_OnePrtRunOneMp7Run ==
    (err # "none" /\ Ran("prt") # {}) =>
        /\ Cardinality(Ran("prt")) = 1
        /\ prp["A"] # Unset /\ prp["B"] # Unset
        /\ mp7 # Unset
        /\ Cardinality(Logged(<<"write_input", "mp7">>)) = 1
        /\ Cardinality(Logged(<<"run_model", "mp7">>)) = 1

LayerClass(layer, class) ==
    /\ layer = 1 => class = "green"
    /\ layer = 2 => class = "yellow"
    /\ layer \notin {1, 2} => class = "red"
    /\ class \in {"green", "yellow", "red"}

\* C15: every loader gives a row of layer 1 the class green, of layer 2
\* yellow and of any other layer red, the layer being the 1-based one; rows of
\* the same layer get the same class from the PRT loader and from the
\* MODPATH 7 loaders.
C15_LayerClass ==
    /\ \A i \in 1..Len(mf6pl) : LayerClass(prtfile[i].ilay, mf6pl[i].mc)
    /\ \A df \in {mp7pl, mp7ts, mp7ep} : \A i \in 1..Len(df) :
          /\ df[i].k = mp7file[i].k + 1
          /\ LayerClass(mp7file[i].k + 1, df[i].mc)
    /\ \A df \in {mp7pl, mp7ts, mp7ep} :
          \A i \in 1..Len(mf6pl) : \A j \in 1..Len(df) :
              mf6pl[i].ilay = mp7file[j].k + 1 => mf6pl[i].mc = df[j].mc

C15_Witness ==
    /\ ppc = "plot_pathlines"
    /\ Len(mf6pl) = 1 /\ Len(mp7ep) = 1
    /\ prtfile[1].ilay = 2 /\ mp7file[1].k = 1
    /\ mf6pl[1].mc = "yellow" /\ mp7pl[1].mc = "yellow"
    /\ mp7ts[1].mc = "yellow" /\ mp7ep[1].mc = "yellow"

ReleaseNodes ==
    UNION {IF d.kind = "ParticleData" THEN {d.pts[i].node : i \in 1..Len(d.pts)}
           ELSE IF d.kind = "NodeParticleData" THEN {d.nodes}
           ELSE {} : d \in {prp["A"], prp["B"], pg["A"], pg["B"]}}

C17_GwfOutputFiles ==
    /\ At("reverse_budget") =>
          /\ budgetfile = GwfCbb /\ <<"gwf", budgetfile>> \in oc["gwf"]
          /\ headfile = GwfHds /\ <<"gwf", headfile>> \in oc["gwf"]
    /\ mp7 # Unset =>
          /\ mp7.budgetfilename = GwfCbb /\ <<"gwf", mp7.budgetfilename>> \in oc["gwf"]
          /\ mp7.headfilename = GwfHds /\ <<"gwf", mp7.headfilename>> \in oc["gwf"]

\* C18: no module-level statement rebinds pd: it denotes the pandas module
\* throughout the script, so also whenever a loader could be called.
C18_PdIsPandas == pd = "pandas"

====
